---- MODULE Spec2Model ----
(***************************************************************************)
(* PriorityBlockingQueue<T> (src/src/lib.rs): a BinaryHeap behind an       *)
(* RwLock, a (Mutex<bool>, Condvar) pair named non_empty, and a fixed      *)
(* max_capacity.  Threads call push, pop and len concurrently.             *)
(***************************************************************************)
EXTENDS Integers, Sequences, FiniteSets, Bags, TLC

\* ---------------------------------------------------------------- bounds
NumThreads == 3
MaxValue == 2
MaxCapacity == 2
SeqMaxCapacity == 3
SeqMaxValue == 3
\* calls issued in a behaviour of Spec, of HistSpec and of FairSpec
MaxCalls == 4
MaxHistCalls == 5
MaxFairCalls == 3

Threads == 1..NumThreads
Values == 1..MaxValue
NoThread == 0

VARIABLES
    elements,      \* the BinaryHeap's backing vector, as a sequence
    poisoned,      \* the RwLock's poison flag
    writer,        \* the thread holding the RwLock write guard, or NoThread
    readers,       \* the threads holding an RwLock read guard
    non_empty,     \* the bool inside the Mutex
    mutex_owner,   \* the thread holding the Mutex guard, or NoThread
    max_capacity,  \* the capacity given to new
    stdout,        \* the process's standard output, as println! finds it
    mutex_poisoned,\* the Mutex's poison flag
    queued,        \* the threads parked in RwLock::write behind readers
    pc,            \* each thread's position in the call it is running
    arg,           \* each thread's argument t of its push call
    result,        \* each thread's outcome of its last finished call
    calls,         \* number of calls issued so far
    pushed,        \* history: the values inserted, in insertion order
    popped,        \* history: the values returned by pop, in return order
    starved,       \* history (HistSpec): the thread's pop began on an empty
                   \* container and no push has inserted since
    race           \* history (HistSpec): the thread's push was one of two or
                   \* more running, their capacity checks still ahead, at an
                   \* instant when exactly one slot was free and no pop was
                   \* running, and no call has been issued since

vars == <<elements, poisoned, writer, readers, non_empty, mutex_owner,
          max_capacity, stdout, mutex_poisoned, queued, pc, arg, result,
          calls, pushed, popped, starved, race>>

lockVars == <<poisoned, writer, readers, queued>>
histVars == <<pushed, popped, starved, race>>
ioVars == <<stdout, mutex_poisoned>>

\* ---------------------------------------------------------- BinaryHeap<T>
\* The heap is the vector data[0..len-1]; At(h, i) is data[i].
At(h, i) == h[i + 1]

Put(h, i, x) == [h EXCEPT ![i + 1] = x]

\* T's total order (Ord::cmp on the integers used as T)
Le(a, b) == a <= b

\* sift_up(start, pos): move the element x of the hole at pos up past every
\* parent that is smaller than it.
RECURSIVE sift_up(_, _, _, _)
sift_up(h, start, pos, x) ==
    IF pos > start
    THEN LET parent == (pos - 1) \div 2
         IN  IF Le(x, At(h, parent))
             THEN Put(h, pos, x)
             ELSE sift_up(Put(h, pos, At(h, parent)), start, parent, x)
    ELSE Put(h, pos, x)

\* sift_down_to_bottom's loop: move the hole at pos down to a leaf, always
\* through the greater child; the result is <<vector, final hole position>>.
RECURSIVE sift_down_hole(_, _, _)
sift_down_hole(h, pos, end) ==
    LET child == 2 * pos + 1
    IN  IF child + 1 < end
        THEN LET c == IF Le(At(h, child), At(h, child + 1))
                      THEN child + 1 ELSE child
             IN  sift_down_hole(Put(h, pos, At(h, c)), c, end)
        ELSE IF child = end - 1
             THEN <<Put(h, pos, At(h, child)), child>>
             ELSE <<h, pos>>

sift_down_to_bottom(h, x) ==
    LET down == sift_down_hole(h, 0, Len(h))
    IN  sift_up(down[1], 0, down[2], x)

\* BinaryHeap::push: append, then sift_up(0, old_len)
HeapPush(h, x) == sift_up(Append(h, x), 0, Len(h), x)

\* Mutant of HeapPop: BinaryHeap::peek, which leaves the item in the heap
HeapPeek(h) == <<h[1], h>>

\* Mutant of HeapPop: a plain Vec::pop, the last item of the vector
VecPop(h) == <<h[Len(h)], SubSeq(h, 1, Len(h) - 1)>>

\* BinaryHeap::pop on a non-empty heap: take the last item; if items remain,
\* swap it with the root and sift it down.  <<item returned, vector left>>
HeapPop(h) ==
    LET item == h[Len(h)]
        rest == SubSeq(h, 1, Len(h) - 1)
    IN  IF rest = <<>>
        THEN <<item, rest>>
        ELSE <<rest[1], sift_down_to_bottom(rest, item)>>

\* ------------------------------------------------------------- results
NoResult == [kind |-> "none", val |-> 0]
OkResult == [kind |-> "ok", val |-> 0]
ErrResult == [kind |-> "capacity_reached", val |-> 0]
PanicResult == [kind |-> "panic", val |-> 0]
PopResult(v) == [kind |-> "popped", val |-> v]
LenResult(n) == [kind |-> "len", val |-> n]

\* ------------------------------------------------------- println!
\* What a write to the standard output can meet: "open" takes the line;
\* "broken" is a pipe whose reader has gone, the write fails and println!
\* panics; "full" is a pipe that nobody reads, the write does not return.
Stdouts == {"open", "broken", "full"}

\* The states in which a println! may find the standard output: an open
\* one may have broken or filled up since the last write, the others stay.
Println(s) == IF s = "open" THEN Stdouts ELSE {s}

\* ------------------------------------------------------------ new
new(c) ==
    /\ max_capacity = c
    /\ elements = <<>>
    /\ poisoned = FALSE
    /\ writer = NoThread
    /\ readers = {}
    /\ non_empty = FALSE
    /\ mutex_owner = NoThread
    /\ stdout \in Stdouts
    /\ mutex_poisoned = FALSE
    /\ queued = {}
    /\ pc = [t \in Threads |-> "idle"]
    /\ arg = [t \in Threads |-> 0]
    /\ result = [t \in Threads |-> NoResult]
    /\ calls = 0
    /\ pushed = <<>>
    /\ popped = <<>>
    /\ starved = [t \in Threads |-> FALSE]
    /\ race = [t \in Threads |-> FALSE]

Init == \E c \in 0..MaxCapacity : new(c)

\* A call finishes: the thread is idle again and holds its outcome.
Return(t, r) ==
    /\ pc' = [pc EXCEPT ![t] = "idle"]
    /\ arg' = [arg EXCEPT ![t] = 0]
    /\ result' = [result EXCEPT ![t] = r]

Goto(t, label) ==
    /\ pc' = [pc EXCEPT ![t] = label]
    /\ UNCHANGED <<result, arg>>

\* Mutant of CanRead: the read lock is granted while a writer holds the lock
ReadUnlocked == TRUE

\* RwLock::write / RwLock::read can be granted
CanWrite == writer = NoThread /\ readers = {}
CanRead == writer = NoThread /\ queued = {}

InPop(t) ==
    pc[t] \in {"pop_print", "pop_mutex", "pop_check", "pop_waiting",
               "pop_woken", "pop_write", "pop_remove"}

\* RwLock::write finds the lock held by readers and parks the thread;
\* readers that arrive while a writer is parked wait behind it.  (Behind a
\* write guard every reader waits anyway, and the release of the lock
\* clears the mark.)
WriteQueue(t) ==
    /\ pc[t] \in {"push_write", "pop_write"}
    /\ readers # {}
    /\ t \notin queued
    /\ queued' = queued \cup {t}
    /\ UNCHANGED <<elements, poisoned, writer, readers, non_empty,
                   mutex_owner, max_capacity, stdout, mutex_poisoned, pc, arg,
                   result, calls, histVars>>

\* ------------------------------------------------------------ push
CallPush(t, v) ==
    /\ pc[t] = "idle"
    /\ pc' = [pc EXCEPT ![t] = "push_write"]
    /\ arg' = [arg EXCEPT ![t] = v]
    /\ result' = [result EXCEPT ![t] = NoResult]
    /\ UNCHANGED <<elements, lockVars, non_empty, mutex_owner, max_capacity, ioVars,
                   pushed, popped>>

\* line 25: self.elements.write().unwrap()
PushWrite(t) ==
    /\ pc[t] = "push_write"
    /\ CanWrite
    /\ IF poisoned
       THEN Return(t, PanicResult) /\ UNCHANGED writer
       ELSE Goto(t, "push_check") /\ writer' = t
    /\ UNCHANGED <<elements, poisoned, readers, non_empty, mutex_owner,
                   max_capacity, ioVars, queued, calls, histVars>>

\* Mutant of CapacityReached: > in place of >=
CapacityExceeded(h, cap) == Len(h) > cap

\* line 26: elements.len() >= self.max_capacity
CapacityReached(h, cap) == Len(h) >= cap

\* line 27: Err(Error::QueueCapacityReached); the write guard is dropped
PushReject(t) ==
    /\ Return(t, ErrResult)
    /\ writer' = NoThread
    /\ queued' = {}
    /\ UNCHANGED <<elements, poisoned, readers, non_empty, mutex_owner,
                   max_capacity, stdout, mutex_poisoned, calls, histVars>>

\* line 29: elements.push(t)
PushInsert(t) ==
    /\ Goto(t, "push_mutex")
    /\ elements' = HeapPush(elements, arg[t])
    /\ pushed' = Append(pushed, arg[t])
    /\ starved' = [u \in Threads |-> FALSE]
    /\ UNCHANGED <<lockVars, non_empty, mutex_owner, max_capacity, ioVars, calls,
                   popped, race>>

\* lines 26-29: the capacity check under the write guard
PushCheck(t) ==
    /\ pc[t] = "push_check"
    /\ IF CapacityReached(elements, max_capacity)
       THEN PushReject(t)
       ELSE PushInsert(t)

\* line 37: mutex.lock().unwrap(); on a poisoned Mutex the unwrap panics
\* while the write guard is alive
PushMutex(t) ==
    /\ pc[t] = "push_mutex"
    /\ mutex_owner = NoThread
    /\ IF mutex_poisoned
       THEN /\ Return(t, PanicResult)
            /\ poisoned' = TRUE
            /\ writer' = NoThread
            /\ queued' = {}
            /\ UNCHANGED mutex_owner
       ELSE /\ Goto(t, "push_notify")
            /\ mutex_owner' = t
            /\ UNCHANGED <<poisoned, writer, queued>>
    /\ UNCHANGED <<elements, readers, non_empty, max_capacity, stdout,
                   mutex_poisoned, calls, histVars>>

\* Condvar::notify_one: the sets of threads one notification may wake
Waiting == {c \in Threads : pc[c] = "pop_waiting"}

\* Mutant of NotifyOne: Condvar::notify_all, every waiting thread is woken
NotifyAll(ws) == {ws}

NotifyOne(ws) == IF ws = {} THEN {{}} ELSE {{c} : c \in ws}

\* line 38 fails: println! panics while the Mutex guard and the write guard
\* are alive.  Unwinding drops the guards frame by frame: here the
\* MutexGuard of notify_waiters_for_push, which poisons and frees the Mutex
\* while the write guard of push is still held.
PushPrintPanics(t) ==
    /\ Goto(t, "push_unwind")
    /\ mutex_poisoned' = TRUE
    /\ mutex_owner' = NoThread
    /\ UNCHANGED <<elements, lockVars, non_empty>>

\* lines 39-41: *mutex_guard = true; notify_one(); the mutex guard is dropped
PushSignal(t) ==
    /\ non_empty' = TRUE
    /\ mutex_owner' = NoThread
    /\ \E woken \in NotifyOne(Waiting) :
          pc' = [c \in Threads |->
                    IF c = t THEN "push_return"
                    ELSE IF c \in woken THEN "pop_woken" ELSE pc[c]]
    /\ UNCHANGED <<elements, lockVars, mutex_poisoned, arg, result>>

\* lines 38-41: println!("Notifying on push") under both guards, then the
\* flag is set and one waiter notified.  A println! that finds the pipe full
\* does not return: the thread stays here, holding both guards.
PushNotify(t) ==
    /\ pc[t] = "push_notify"
    /\ stdout # "full"
    /\ \E s \in Println(stdout) :
          /\ stdout' = s
          /\ IF s = "full"
             THEN UNCHANGED <<elements, lockVars, non_empty, mutex_owner,
                              mutex_poisoned, pc, arg, result>>
             ELSE IF s = "broken"
             THEN PushPrintPanics(t)
             ELSE PushSignal(t)
    /\ UNCHANGED <<max_capacity, calls, histVars>>

\* the unwinding reaches the frame of push (lines 24-33): its write guard is
\* dropped, which poisons and frees the RwLock; the call ends in the panic
PushUnwind(t) ==
    /\ pc[t] = "push_unwind"
    /\ Return(t, PanicResult)
    /\ poisoned' = TRUE
    /\ writer' = NoThread
    /\ queued' = {}
    /\ UNCHANGED <<elements, readers, non_empty, mutex_owner, max_capacity,
                   stdout, mutex_poisoned, calls, histVars>>

\* lines 31-33: Ok(()); the write guard is dropped
PushReturn(t) ==
    /\ pc[t] = "push_return"
    /\ writer' = NoThread
    /\ queued' = {}
    /\ Return(t, OkResult)
    /\ UNCHANGED <<elements, poisoned, readers, non_empty, mutex_owner,
                   max_capacity, stdout, mutex_poisoned, calls, histVars>>

\* ------------------------------------------------------------ pop
\* line 44: println!("Waiting until non-empty"), before any lock is taken;
\* on a broken pipe it panics, on a full pipe it does not return
CallPop(t) ==
    /\ pc[t] = "idle"
    /\ \E s \in Println(stdout) :
          /\ stdout' = s
          /\ IF s = "broken"
             THEN Return(t, PanicResult)
             ELSE /\ pc' = [pc EXCEPT ![t] = IF s = "full" THEN "pop_print"
                                                         ELSE "pop_mutex"]
                  /\ result' = [result EXCEPT ![t] = NoResult]
                  /\ UNCHANGED arg
    /\ UNCHANGED <<elements, lockVars, non_empty, mutex_owner, max_capacity,
                   mutex_poisoned, pushed, popped>>

\* line 46: mutex.lock().unwrap(), which panics on a poisoned Mutex; also
\* the re-acquisition of the mutex by a thread that the condition variable
\* has woken: on a poisoned Mutex wait_while returns the error, which line 47
\* discards, and the guard is dropped
PopMutex(t) ==
    /\ pc[t] \in {"pop_mutex", "pop_woken"}
    /\ mutex_owner = NoThread
    /\ IF mutex_poisoned
       THEN /\ IF pc[t] = "pop_mutex"
               THEN Return(t, PanicResult)
               ELSE Goto(t, "pop_write")
            /\ UNCHANGED mutex_owner
       ELSE /\ Goto(t, "pop_check")
            /\ mutex_owner' = t
    /\ UNCHANGED <<elements, lockVars, non_empty, max_capacity, stdout,
                   mutex_poisoned, calls, histVars>>

\* line 47: the condition of wait_while, |non_empty| !*non_empty
MustWait(flag) == ~flag

\* Mutant of PopCheck: the consumer that passes the wait resets the flag
PopCheckResetsFlag(t) ==
    /\ pc[t] = "pop_check"
    /\ mutex_owner' = NoThread
    /\ IF MustWait(non_empty)
       THEN Goto(t, "pop_waiting") /\ UNCHANGED non_empty
       ELSE Goto(t, "pop_write") /\ non_empty' = FALSE
    /\ UNCHANGED <<elements, lockVars, max_capacity, ioVars, calls, histVars>>

\* line 47: wait_while tests the condition under the mutex; it waits (the
\* mutex is released) or returns the guard, which is dropped at once
PopCheck(t) ==
    /\ pc[t] = "pop_check"
    /\ mutex_owner' = NoThread
    /\ IF MustWait(non_empty)
       THEN Goto(t, "pop_waiting")
       ELSE Goto(t, "pop_write")
    /\ UNCHANGED <<elements, lockVars, non_empty, max_capacity, ioVars, calls,
                   histVars>>

\* Condvar::wait may return without a notification
SpuriousWakeup(t) ==
    /\ pc[t] = "pop_waiting"
    /\ Goto(t, "pop_woken")
    /\ UNCHANGED <<elements, lockVars, non_empty, mutex_owner, max_capacity, ioVars, calls, histVars>>

\* line 52: self.elements.write().unwrap()
PopWrite(t) ==
    /\ pc[t] = "pop_write"
    /\ CanWrite
    /\ IF poisoned
       THEN Return(t, PanicResult) /\ UNCHANGED writer
       ELSE Goto(t, "pop_remove") /\ writer' = t
    /\ UNCHANGED <<elements, poisoned, readers, non_empty, mutex_owner,
                   max_capacity, ioVars, queued, calls, histVars>>

\* line 53: elements.pop().unwrap(); unwrap of None panics while the write
\* guard is alive, which poisons the RwLock
PopRemove(t) ==
    /\ pc[t] = "pop_remove"
    /\ writer' = NoThread
    /\ queued' = {}
    /\ IF elements = <<>>
       THEN /\ Return(t, PanicResult)
            /\ poisoned' = TRUE
            /\ UNCHANGED <<elements, popped>>
       ELSE /\ Return(t, PopResult(HeapPop(elements)[1]))
            /\ elements' = HeapPop(elements)[2]
            /\ popped' = Append(popped, HeapPop(elements)[1])
            /\ UNCHANGED poisoned
    /\ UNCHANGED <<readers, non_empty, mutex_owner, max_capacity, stdout,
                   mutex_poisoned, calls, pushed, starved, race>>

\* ------------------------------------------------------------ len
CallLen(t) ==
    /\ pc[t] = "idle"
    /\ pc' = [pc EXCEPT ![t] = "len_read"]
    /\ result' = [result EXCEPT ![t] = NoResult]
    /\ UNCHANGED <<elements, lockVars, non_empty, mutex_owner, max_capacity, ioVars,
                   arg, pushed, popped>>

\* line 21: self.elements.read().unwrap()
LenRead(t) ==
    /\ pc[t] = "len_read"
    /\ CanRead
    /\ IF poisoned
       THEN Return(t, PanicResult) /\ UNCHANGED readers
       ELSE Goto(t, "len_count") /\ readers' = readers \cup {t}
    /\ UNCHANGED <<elements, poisoned, writer, non_empty, mutex_owner,
                   max_capacity, ioVars, queued, calls, histVars>>

\* line 21: .len(); the read guard is dropped
LenCount(t) ==
    /\ pc[t] = "len_count"
    /\ readers' = readers \ {t}
    /\ queued' = IF readers = {t} THEN {} ELSE queued
    /\ Return(t, LenResult(Len(elements)))
    /\ UNCHANGED <<elements, poisoned, writer, non_empty, mutex_owner,
                   max_capacity, stdout, mutex_poisoned, calls, histVars>>

\* ------------------------------------------------- concurrent callers
\* Threads are interchangeable: they are numbered in the order of their
\* first call.
Used(t) == pc[t] # "idle" \/ result[t] # NoResult

MayCall(t, budget) ==
    /\ calls < budget
    /\ calls' = calls + 1
    /\ IF t = 1 THEN TRUE ELSE Used(t - 1)

StartPush(t, v) ==
    MayCall(t, MaxCalls) /\ CallPush(t, v) /\ UNCHANGED <<starved, race>>
StartPop(t) == MayCall(t, MaxCalls) /\ CallPop(t) /\ UNCHANGED <<starved, race>>
StartLen(t) == MayCall(t, MaxCalls) /\ CallLen(t) /\ UNCHANGED <<starved, race>>

\* The steps of a call in progress that the scheduler must eventually run
Step(t) ==
    \/ PushWrite(t)
    \/ PushCheck(t)
    \/ PushMutex(t)
    \/ PushNotify(t)
    \/ PushUnwind(t)
    \/ PushReturn(t)
    \/ PopMutex(t)
    \/ PopCheck(t)
    \/ PopWrite(t)
    \/ PopRemove(t)
    \/ LenRead(t)
    \/ LenCount(t)

Next ==
    \E t \in Threads :
        \/ \E v \in Values : StartPush(t, v)
        \/ StartPop(t)
        \/ StartLen(t)
        \/ Step(t)
        \/ SpuriousWakeup(t)
        \/ WriteQueue(t)

Spec == Init /\ [][Next]_vars

\* ------------------------------------ concurrent callers, with history
\* The same calls; each call also records what the container held when it
\* was issued.
HistStartPush(t, v) ==
    /\ MayCall(t, MaxHistCalls)
    /\ CallPush(t, v)
    /\ race' = [u \in Threads |-> FALSE]
    /\ starved' = [starved EXCEPT ![t] = FALSE]

HistStartPop(t) ==
    /\ MayCall(t, MaxHistCalls)
    /\ CallPop(t)
    /\ starved' = [starved EXCEPT ![t] = (elements = <<>>)]
    /\ race' = [u \in Threads |-> FALSE]

HistStartLen(t) ==
    /\ MayCall(t, MaxHistCalls)
    /\ CallLen(t)
    /\ starved' = [starved EXCEPT ![t] = FALSE]
    /\ race' = [u \in Threads |-> FALSE]

\* Records the pushes that are competing for the last free slot.
PushesAhead == {t \in Threads : pc[t] \in {"push_write", "push_check"}}

MarkRace ==
    /\ \A t \in Threads : ~race[t] /\ ~InPop(t)
    /\ max_capacity - Len(elements) = 1
    /\ Cardinality(PushesAhead) >= 2
    /\ race' = [t \in Threads |-> t \in PushesAhead]
    /\ UNCHANGED <<elements, lockVars, non_empty, mutex_owner, max_capacity, ioVars,
                   pc, arg, result, calls, pushed, popped, starved>>

HistNext ==
    \/ \E t \in Threads :
          \/ \E v \in Values : HistStartPush(t, v)
          \/ HistStartPop(t)
          \/ HistStartLen(t)
          \/ Step(t)
          \/ SpuriousWakeup(t)
          \/ WriteQueue(t)
    \/ MarkRace

HistSpec == Init /\ [][HistNext]_vars

\* ------------------------ producers and consumers, fair scheduling
FairStartPush(t, v) ==
    MayCall(t, MaxFairCalls) /\ CallPush(t, v) /\ UNCHANGED <<starved, race>>
FairStartPop(t) ==
    MayCall(t, MaxFairCalls) /\ CallPop(t) /\ UNCHANGED <<starved, race>>

FairStep(t) ==
    \/ PushWrite(t)
    \/ PushCheck(t)
    \/ PushMutex(t)
    \/ PushNotify(t)
    \/ PushUnwind(t)
    \/ PushReturn(t)
    \/ PopMutex(t)
    \/ PopCheck(t)
    \/ PopWrite(t)
    \/ PopRemove(t)

FairNext ==
    \E t \in Threads :
        \/ \E v \in Values : FairStartPush(t, v)
        \/ FairStartPop(t)
        \/ FairStep(t)
        \/ SpuriousWakeup(t)

\* A thread that is able, again and again, to take the next step of its call
\* eventually takes it: the scheduler runs every runnable thread and no
\* thread is starved of a lock.  No caller is obliged to issue a call, and no
\* wait to wake spuriously.
FairSpec ==
    Init /\ [][FairNext]_vars /\ \A t \in Threads : SF_vars(FairStep(t))

\* ------------------------------------------------- a single caller
\* One thread issues pushes for as long as each returns Ok, then as many
\* pops, each after the one before has returned a value, then len; calls
\* counts the pops issued.  With no push at all that is len on the fresh
\* queue (lines 69-73).
SeqInit == \E c \in 0..SeqMaxCapacity : new(c)

SeqStartPush(v) ==
    /\ calls = 0
    /\ result[1].kind \in {"none", "ok"}
    /\ Len(pushed) < max_capacity
    /\ CallPush(1, v)
    /\ UNCHANGED <<calls, starved, race>>

SeqStartPop ==
    /\ calls < Len(pushed)
    /\ result[1].kind = IF calls = 0 THEN "ok" ELSE "popped"
    /\ calls' = calls + 1
    /\ CallPop(1)
    /\ UNCHANGED <<starved, race>>

SeqStartLen ==
    /\ calls = Len(pushed)
    /\ result[1].kind = IF pushed = <<>> THEN "none" ELSE "popped"
    /\ CallLen(1)
    /\ UNCHANGED <<calls, starved, race>>

SeqNext ==
    \/ \E v \in 1..SeqMaxValue : SeqStartPush(v)
    \/ SeqStartPop
    \/ SeqStartLen
    \/ Step(1)

SeqSpec == SeqInit /\ [][SeqNext]_vars

\* ------------------------------------- a single caller, refilling
\* One thread fills the queue until a push returns the capacity error, then
\* calls pop, push, push and len; calls counts the calls issued after the
\* rejected push.
RefillStartPush(v) ==
    /\ IF calls = 0
       THEN result[1].kind \in {"none", "ok"} /\ UNCHANGED calls
       ELSE calls \in {1, 2} /\ calls' = calls + 1
    /\ CallPush(1, v)
    /\ UNCHANGED <<starved, race>>

RefillStartPop ==
    /\ calls = 0
    /\ result[1] = ErrResult
    /\ calls' = 1
    /\ CallPop(1)
    /\ UNCHANGED <<starved, race>>

RefillStartLen ==
    /\ calls = 3
    /\ calls' = 4
    /\ CallLen(1)
    /\ UNCHANGED <<starved, race>>

RefillNext ==
    \/ \E v \in Values : RefillStartPush(v)
    \/ RefillStartPop
    \/ RefillStartLen
    \/ Step(1)

RefillSpec == Init /\ [][RefillNext]_vars

\* ------------------------- one consumer and one producer, fair scheduling
\* Thread 1 calls pop once on the fresh queue and thread 2 calls push once,
\* at any moment before, while or after the consumer starts to wait.
BlockStartPop ==
    /\ result[1] = NoResult
    /\ CallPop(1)
    /\ UNCHANGED <<calls, starved, race>>

BlockStartPush(v) ==
    /\ result[2] = NoResult
    /\ CallPush(2, v)
    /\ UNCHANGED <<calls, starved, race>>

BlockNext ==
    \/ BlockStartPop
    \/ \E v \in Values : BlockStartPush(v)
    \/ \E t \in Threads : FairStep(t) \/ SpuriousWakeup(t)

BlockSpec ==
    Init /\ [][BlockNext]_vars /\ \A t \in Threads : SF_vars(FairStep(t))

\* --------------------------------- concurrent callers, fair scheduling
\* The calls of Spec; a thread that is able, again and again, to take the
\* next step of its call (to acquire the lock it asks for) eventually does.
LiveSpec == Init /\ [][Next]_vars /\ \A t \in Threads : SF_vars(Step(t))

\* ------------------------------------------------------------ helpers
Range(s) == {s[i] : i \in DOMAIN s}

BagOf(s) == [v \in Range(s) |-> Cardinality({i \in DOMAIN s : s[i] = v})]

Descending(s) == \A i, j \in DOMAIN s : i < j => Le(s[j], s[i])

InPush(t) ==
    pc[t] \in {"push_write", "push_check", "push_mutex", "push_notify",
               "push_unwind", "push_return"}

\* The lock a thread is asking for at its present position (lines 25 and 52:
\* write(); line 21: read(); lines 37 and 46, and the re-acquisition after a
\* wakeup: lock())
WantsWrite(t) == pc[t] \in {"push_write", "pop_write"}
WantsRead(t) == pc[t] = "len_read"
WantsMutex(t) == pc[t] \in {"push_mutex", "pop_mutex", "pop_woken"}

\* t is waiting for a lock that u holds
WaitsFor(t, u) ==
    /\ t # u
    /\ IF WantsWrite(t) THEN writer = u \/ u \in readers
       ELSE IF WantsRead(t) THEN writer = u \/ u \in queued
       ELSE IF WantsMutex(t) THEN mutex_owner = u
       ELSE FALSE

\* t can take the next step of its call now
Runnable(t) ==
    IF WantsWrite(t) THEN CanWrite
    ELSE IF WantsRead(t) THEN CanRead
    ELSE IF WantsMutex(t) THEN mutex_owner = NoThread
    ELSE IF pc[t] = "push_notify" THEN stdout # "full"
    ELSE pc[t] \notin {"idle", "pop_waiting", "pop_print"}

\* The threads that can step, or wait for a lock held by (or, for a reader,
\* a writer parked before) a thread that can: the closure of Runnable under
\* WaitsFor
RECURSIVE Unblocked(_)
Unblocked(n) ==
    IF n = 0 THEN {t \in Threads : Runnable(t)}
    ELSE Unblocked(n - 1)
            \cup {t \in Threads : \E u \in Unblocked(n - 1) : WaitsFor(t, u)}

Progress(t) == t \in Unblocked(NumThreads)

\* t is inside wait_non_empty (lines 43-48): taking the mutex, testing the
\* flag, waiting on the condition variable or woken from it
InWaitNonEmpty(t) ==
    pc[t] \in {"pop_print", "pop_mutex", "pop_check", "pop_waiting",
               "pop_woken"}

\* No set of threads in which each waits for a lock held by another of them
NoLockCycle ==
    \A S \in SUBSET Threads :
        S # {} => \E t \in S : \A u \in S : ~WaitsFor(t, u)

\* ------------------------------------------------------------- claims

\* C1: whenever a pop call reaches its removal step (elements.pop() under the
\* write lock) the container holds at least one element, so the unwrap never
\* panics.
PopRemovesFromNonEmpty ==
    \A t \in Threads : pc[t] = "pop_remove" => elements # <<>>

\* C2: a pop call issued while the container is empty does not proceed to
\* removal (and so does not return) until some push has inserted an element
\* after the call started.
EmptyPopBlocks ==
    \A t \in Threads : starved[t] => pc[t] \notin {"pop_write", "pop_remove"}

\* C3: the number of elements held in the container is at most the capacity
\* given at construction, in every reachable state.
CapacityBound == Len(elements) <= max_capacity

\* C3 witness: the container is full while another push is at its own
\* capacity check and a pop is about to take the write lock.
CapacityBoundWitness ==
    /\ max_capacity = MaxCapacity
    /\ Len(elements) = max_capacity
    /\ \E t \in Threads : pc[t] = "push_check"
    /\ \E t \in Threads : pc[t] = "pop_write"

\* C4: at every instant the multiset of inserted values equals the multiset
\* still in the container plus the multiset already returned by pop; so no
\* inserted value is returned more often than it was inserted.
ExactlyOnce == BagOf(pushed) = BagOf(elements) (+) BagOf(popped)

\* C4 witness: two equal values were pushed and two pops, by two threads,
\* have each returned one of them.
ExactlyOnceWitness ==
    /\ Len(pushed) = 2
    /\ Len(popped) = 2
    /\ popped[1] = popped[2]
    /\ elements = <<>>
    /\ \E t, u \in Threads :
          t # u /\ result[t].kind = "popped" /\ result[u].kind = "popped"

\* C5: the value a pop returns is greater than or equal to every element
\* that remains in the container at the instant of the removal.
PopReturnsMaximum ==
    [][\A t \in Threads :
          (pc[t] = "pop_remove" /\ result'[t].kind = "popped")
              => \A i \in DOMAIN elements' :
                    Le(elements'[i], result'[t].val)]_vars

\* C5 witness: the smaller value was pushed first, the greater second, one
\* pop has returned the greater and the smaller remains.
PopReturnsMaximumWitness ==
    /\ Len(pushed) = 2
    /\ pushed[1] < pushed[2]
    /\ popped = <<pushed[2]>>
    /\ elements = <<pushed[1]>>
    /\ \E t \in Threads : result[t] = PopResult(pushed[2])

\* C6: a push called when the element count is already equal to (or above)
\* the capacity returns the capacity-reached error and changes nothing.  A
\* push that is granted the write lock (line 25) on such a container goes on
\* to the capacity check, and its capacity check returns the error and
\* leaves the container, the non_empty flag, the poison flag and every other
\* thread's position (no consumer is notified) unchanged.
FullPushChangesNothing ==
    [][\A t \in Threads :
          (pc[t] \in {"push_write", "push_check"}
             /\ Len(elements) >= max_capacity
             /\ pc'[t] # pc[t])
              => /\ IF pc[t] = "push_write"
                    THEN pc'[t] = "push_check"
                    ELSE pc'[t] = "idle" /\ result'[t] = ErrResult
                 /\ elements' = elements
                 /\ non_empty' = non_empty
                 /\ poisoned' = poisoned
                 /\ \A c \in Threads \ {t} : pc'[c] = pc[c]]_vars

\* C7: when exactly one slot remains and two or more pushes run concurrently
\* with no pop in between, exactly one of them succeeds and the others return
\* the capacity-reached error.
Racers == {t \in Threads : race[t]}

PushRaceOneWinner ==
    (Racers # {} /\ \A t \in Racers : pc[t] = "idle")
        => /\ Cardinality({t \in Racers : result[t] = OkResult}) = 1
           /\ \A t \in Racers : result[t] \in {OkResult, ErrResult}

\* C8: no lost wakeup.  If consumers are blocked on the condition variable
\* when a push that succeeds performs its notify step, the step wakes one of
\* those consumers with the flag set, and under fair scheduling a consumer
\* woken with the flag set eventually leaves the wait and goes on to the
\* removal (line 52).
NoLostWakeup ==
    /\ [][\A p \in Threads :
            (pc[p] = "push_notify" /\ pc'[p] = "push_return" /\ Waiting # {})
                => \E c \in Waiting : pc'[c] = "pop_woken" /\ non_empty']_vars
    /\ \A c \in Threads :
          (pc[c] = "pop_woken" /\ non_empty) ~> (pc[c] = "pop_write")

\* C9: a consumer that calls pop when an element is already present in the
\* container eventually leaves the wait, under fair scheduling, whatever the
\* other threads do.
PresentElementEndsWait ==
    \A c \in Threads :
        (pc[c] = "pop_mutex" /\ elements # <<>>) ~> (pc[c] = "pop_write")

\* C10: single-threaded, k successful pushes (k at most the capacity)
\* followed by k pops: every pop returns a value (it neither panics nor
\* stays blocked), the values returned are in descending order and, once the
\* k-th pop has returned, are a permutation of the pushed values; the
\* container is then empty and len() returns 0.
SeqOrdering ==
    /\ Descending(popped)
    /\ calls > 0
          => /\ pc[1] \notin {"pop_print", "pop_waiting"}
             /\ pc[1] = "idle" => /\ result[1].kind \in {"popped", "len"}
                                  /\ Len(popped) = calls
    /\ (pc[1] = "idle" /\ calls = Len(pushed)
          /\ result[1].kind \in {"none", "popped", "len"})
          => BagOf(popped) = BagOf(pushed) /\ elements = <<>>
    /\ pc[1] = "idle" /\ result[1].kind = "len" => result[1].val = 0

\* C11: from a full queue (of positive capacity) on which a push has just
\* failed, one pop returns the maximum element and frees exactly one slot:
\* the next push succeeds, the push after it fails with the capacity-reached
\* error, and len() then returns the capacity.
RefillOneSlot ==
    (max_capacity > 0 /\ calls >= 1 /\ pc[1] = "idle")
        => CASE calls = 1 ->
                  /\ result[1].kind = "popped"
                  /\ \A i \in 1..max_capacity : Le(pushed[i], result[1].val)
                  /\ Len(elements) = max_capacity - 1
             [] calls = 2 ->
                  result[1] = OkResult /\ Len(elements) = max_capacity
             [] calls = 3 ->
                  result[1] = ErrResult /\ Len(elements) = max_capacity
             [] OTHER -> result[1] = LenResult(max_capacity)

\* C12: on a fresh queue no pop returns (or reaches the removal) before the
\* first successful push has inserted its element; and when the single
\* consumer is blocked on the condition variable and the single push, of
\* value v, is about to insert, the blocked pop eventually returns exactly v.
BlockedPopReturnsPushed ==
    /\ [](pushed = <<>>
            => /\ pc[1] \notin {"pop_write", "pop_remove"}
               /\ result[1].kind # "popped")
    /\ \A v \in Values :
          (/\ pc[1] = "pop_waiting"
           /\ pc[2] = "push_check" /\ arg[2] = v
           /\ max_capacity > 0)
              ~> (pc[1] = "idle" /\ result[1] = PopResult(v))

\* C13: a queue constructed with capacity 0 rejects every push with the
\* capacity-reached error, its container stays empty and its flag unset, and
\* every pop blocks forever: none reaches the removal and none ends, with a
\* value or otherwise.
ZeroCapacityInert ==
    max_capacity = 0
        => /\ elements = <<>> /\ pushed = <<>>
           /\ ~non_empty
           /\ \A t \in Threads :
                 /\ pc[t] \notin {"push_mutex", "push_notify", "push_unwind",
                                  "push_return", "pop_write", "pop_remove"}
                 /\ result[t].kind \in {"none", "capacity_reached", "len"}
                 /\ result[t].kind = "len" => result[t].val = 0

\* C14: push never waits for a consumer.  Under fair lock acquisition every
\* push call, on a full queue too and whether or not any pop is issued,
\* terminates, and it terminates with success or with the capacity-reached
\* error.
PushTerminates ==
    /\ [][\A t \in Threads :
            (InPush(t) /\ pc'[t] = "idle")
                => result'[t] \in {OkResult, ErrResult}]_vars
    /\ \A t \in Threads : InPush(t) ~> (pc[t] = "idle")

\* C15: len() changes no state of the queue (container, flag, set of waiting
\* consumers, locks left as found) and returns the exact number of elements
\* held at the instant it counts, at which no push or pop holds the write
\* lock; the value returned is between 0 and the capacity.
LenReadsOnly ==
    [][\A t \in Threads :
          /\ (pc[t] \in {"len_read", "len_count"} /\ pc'[t] # pc[t])
                => /\ elements' = elements
                   /\ non_empty' = non_empty
                   /\ Waiting' = Waiting
                   /\ poisoned' = poisoned
                   /\ writer' = writer
                   /\ mutex_owner' = mutex_owner
          /\ (pc[t] = "len_count" /\ pc'[t] = "idle")
                => /\ writer = NoThread
                   /\ result'[t] = LenResult(Len(elements))
                   /\ result'[t].val \in 0..max_capacity]_vars

\* C15 witness: len has returned 1, the count of the container, while a
\* consumer that the push did not notify is still waiting on the condition
\* variable.
LenReadsOnlyWitness ==
    /\ Len(elements) = 1
    /\ \E t \in Threads : pc[t] = "idle" /\ result[t] = LenResult(1)
    /\ \E c \in Threads : pc[c] = "pop_waiting"

\* C16: each successful push releases at most one consumer blocked in the
\* condition-variable wait: its notify step takes at most one thread out of
\* the wait and no other step of a push takes any.
PushWakesAtMostOne ==
    [][\A p \in Threads :
          (InPush(p) /\ pc'[p] # pc[p])
              => /\ Cardinality(Waiting \ Waiting') <= 1
                 /\ pc[p] # "push_notify" => Waiting' = Waiting]_vars

\* C16 witness: two consumers were waiting when the push
\* notified; one has been woken, the other still waits with the flag set.
PushWakesAtMostOneWitness ==
    /\ non_empty
    /\ elements # <<>>
    /\ \E p \in Threads : pc[p] = "idle" /\ result[p] = OkResult
    /\ \E c, u \in Threads : pc[c] = "pop_woken" /\ pc[u] = "pop_waiting"

\* C17: the non_empty flag is monotone.  It is false from construction until
\* the notify step of the first push that inserted; only that step of a push
\* makes it true; once true it stays true, whatever pop, push or len does
\* and even when the container is empty again.
FlagMonotone ==
    /\ [](non_empty => pushed # <<>>)
    /\ [][/\ non_empty => non_empty'
          /\ (~non_empty /\ non_empty')
                => \E p \in Threads :
                      pc[p] = "push_notify" /\ pc'[p] = "push_return"]_vars

\* C17 witness: the flag is set although the container has been emptied by a
\* pop, and a len that returned 0 has left it set.
FlagMonotoneWitness ==
    /\ non_empty
    /\ elements = <<>>
    /\ popped # <<>>
    /\ \E t \in Threads : pc[t] = "idle" /\ result[t] = LenResult(0)

\* C18: whenever no push holds the write lock, a container that is not empty
\* implies that the non_empty flag is true.
FlagCoversElements ==
    ((\A p \in Threads : ~(writer = p /\ InPush(p))) /\ elements # <<>>)
        => non_empty

\* C19: the two locks never deadlock.  In no reachable state is there a set
\* of threads each waiting for a lock held by another of them, every thread
\* in a call that is not waiting on the condition variable can proceed or
\* waits for a thread that can, and under fair scheduling the only threads
\* blocked forever (never returning from their call) are consumers inside
\* the condition-variable wait while the flag is false.
LocksNeverDeadlock ==
    /\ [](/\ NoLockCycle
          /\ \A t \in Threads :
                pc[t] \notin {"idle", "pop_waiting"} => Progress(t))
    /\ \A t \in Threads :
          <>[](pc[t] # "idle") => <>[](InWaitNonEmpty(t) /\ ~non_empty)

====
